---- MODULE Spec2Model ----
(***************************************************************************)
(* Quota and asset ledger of the SaaS platform backend: the User and File  *)
(* models (backend/models) and the request handlers that create, transform *)
(* and delete File records and adjust the per-account counters.            *)
(*                                                                         *)
(* A request handler is an async function: it runs atomically between two  *)
(* awaits, so every handler is a sequence of steps, one per await, and the *)
(* steps of concurrent requests interleave.  req.user and every File       *)
(* document a handler holds are in-memory copies loaded at one moment;     *)
(* save() writes back only the paths the handler modified.                 *)
(*                                                                         *)
(* Sizes and the storage limit are in scaled units (see StorageLimit).     *)
(***************************************************************************)
EXTENDS Integers, Sequences, FiniteSets, TLC

\* ---------------------------------------------------------------- bounds
\* the number of File ids, and the size of a stored file in storage units
MaxFiles == 2
MaxSize == 2
\* the client: how deep HTTP calls nest (a call, the refresh call its
\* interceptor awaits, the refresh call that one's interceptor awaits ...),
\* how many async functions run at once, how many token pairs the server
\* issues
MaxDepth == 3
MaxTasks == 3
MaxTokens == 3

\* ------------------------------------------------------ program constants
\* User.js:79 storage.limit default (104857600 bytes), in scaled units: one
\* file fits, a second one does not
StorageLimit == 3
\* User.js:67, 71, 75: the default limits of the three counted features
ImageToTextLimit == 10
TextToImageLimit == 5
VideoDownloadsLimit == 5

Users == {"u1", "u2", "u3"}
Slots == {"r1", "r2"}
FileIds == 1..MaxFiles
Sizes == {MaxSize}
NoFile == 0
NoExpiry == 0

\* User.js:32-42
Roles == {"user", "admin", "premium"}
SubscriptionTypes == {"free", "monthly", "yearly"}
\* File.js:34-38, 53-57
FileTypes == {"image", "document"}
Statuses == {"uploading", "processing", "completed", "failed", "deleted"}
\* a File id with no document behind it (never created, or removed by
\* findByIdAndDelete)
Absent == "absent"

\* User.js:64-81: the keys of userSchema.features that carry a usage counter
SchemaKeys == {"imageToText", "textToImage", "videoDownloads"}
Undefined == "undefined"
featureLimit == [k \in SchemaKeys |->
                   CASE k = "imageToText" -> ImageToTextLimit
                     [] k = "textToImage" -> TextToImageLimit
                     [] OTHER -> VideoDownloadsLimit]

\* the feature names the handlers pass to canUseFeature/incrementFeatureUsage
FeatureNames == {"image-resize", "text-to-image"}

VARIABLES users, files, usage, req, nextId, now, credits, client
\* users, files, usage: the three collections; req: the requests in flight;
\* nextId: the next fresh File id; now: the clock; credits: for every File id,
\* how many storage credits the delete routes have saved for it (bookkeeping
\* of the verification, read by no handler); client: the browser side, its
\* localStorage, the auth state and the HTTP calls it has in flight

vars == <<users, files, usage, req, nextId, now, credits, client>>

\* --------------------------------------------------------- User methods
\* this.features[featureName]: defined only for the keys of the schema
FeatureLookup(featureName) ==
  IF featureName \in SchemaKeys THEN featureName ELSE Undefined

\* canUseFeature with a feature that has no counter treated as unrestricted
canUseFeatureUncounted(user, featureName) ==
  IF user.role = "admin" THEN "true"
  ELSE IF user.sub = "free"
       THEN IF FeatureLookup(featureName) = Undefined THEN "true"
            ELSE IF user.featUsed[FeatureLookup(featureName)]
                      < featureLimit[FeatureLookup(featureName)]
                 THEN "true" ELSE "false"
       ELSE "true"

\* User.js:180-186; "throw" is the TypeError of reading .used of undefined
canUseFeature(user, featureName) ==
  IF user.role = "admin" THEN "true"
  ELSE IF user.sub = "free"
       THEN IF FeatureLookup(featureName) = Undefined THEN "throw"
            ELSE IF user.featUsed[FeatureLookup(featureName)]
                      < featureLimit[FeatureLookup(featureName)]
                 THEN "true" ELSE "false"
       ELSE "true"

\* User.js:189-193
incrementFeatureUsage(user, featureName) ==
  IF FeatureLookup(featureName) # Undefined
  THEN [user EXCEPT !.featUsed[FeatureLookup(featureName)] = @ + 1,
                    !.dirtyFeat = @ \cup {FeatureLookup(featureName)}]
  ELSE user

\* User.js:196-199
hasStorageSpace(user, fileSize) ==
  IF user.role = "admin" THEN TRUE
  ELSE user.storageUsed + fileSize <= StorageLimit

\* User.js:202-204
addStorageUsage(user, fileSize) ==
  [user EXCEPT !.storageUsed = @ + fileSize, !.dirtyStorage = TRUE]

Max(a, b) == IF a >= b THEN a ELSE b

\* removeStorageUsage as a plain subtraction, without the Math.max
removeStorageUsageUnclamped(user, fileSize) ==
  [user EXCEPT !.storageUsed = @ - fileSize, !.dirtyStorage = TRUE]

\* User.js:207-209
removeStorageUsage(user, fileSize) ==
  [user EXCEPT !.storageUsed = Max(0, @ - fileSize), !.dirtyStorage = TRUE]

\* the stored part of a user document
StoredUser(role, sub, used, featUsed) ==
  [role |-> role, sub |-> sub, storageUsed |-> used, featUsed |-> featUsed]

\* req.user: the document as loaded when the request was authenticated,
\* with the modified-path bookkeeping of the in-memory document
LoadUser(u) ==
  [role |-> users[u].role, sub |-> users[u].sub,
   storageUsed |-> users[u].storageUsed, featUsed |-> users[u].featUsed,
   dirtyStorage |-> FALSE, dirtyFeat |-> {}]

\* document.save() of a user: $set of the modified paths only
SavedUser(stored, local) ==
  [stored EXCEPT
     !.storageUsed = IF local.dirtyStorage THEN local.storageUsed ELSE @,
     !.featUsed = [k \in SchemaKeys |->
                     IF k \in local.dirtyFeat THEN local.featUsed[k] ELSE @[k]]]

Clean(local) == [local EXCEPT !.dirtyStorage = FALSE, !.dirtyFeat = {}]

\* --------------------------------------------------------- File records
NoDoc == [status |-> Absent, size |-> 0, user |-> "u1", type |-> "image",
          parentFile |-> NoFile, relatedFiles |-> <<>>, expiresAt |-> NoExpiry]

NewFile(owner, size, type, parent) ==
  [status |-> "completed", size |-> size, user |-> owner, type |-> type,
   parentFile |-> parent, relatedFiles |-> <<>>, expiresAt |-> NoExpiry]

RECURSIVE SumSizes(_, _)
SumSizes(S, fs) ==
  IF S = {} THEN 0
  ELSE LET f == CHOOSE x \in S : TRUE
       IN fs[f].size + SumSizes(S \ {f}, fs)

\* File.js:202-213: the $match of getStorageUsage and its $sum of size
getStorageUsage(userId) ==
  SumSizes({f \in FileIds : files[f].status # Absent /\ files[f].user = userId
                            /\ files[f].status # "deleted"}, files)

\* the sum the storage invariant of the data model counts
LiveSum(u) ==
  SumSizes({f \in FileIds : files[f].user = u
                            /\ files[f].status \in {"completed", "processing"}},
           files)

\* a Usage document (unnamed/part_003:3-51) as Usage.create stores it, with
\* cost.credits at its default; the log is the collection of them
UsageRecord(u, feature, f) ==
  [user |-> u, feature |-> feature, file |-> f, credits |-> 0]

\* unnamed/part_003:204-222: the cost table, in tenths of a credit
Cost(feature) ==
  CASE feature = "file-upload" -> 1
    [] feature = "image-resize" -> 5
    [] feature = "text-to-image" -> 50
    [] OTHER -> 10

\* ------------------------------------------------------------- requests
IdleReq == [op |-> "none", pc |-> "idle", uid |-> "u1", user |-> NoDoc,
            fid |-> NoFile, file |-> NoDoc, size |-> 0, newId |-> NoFile,
            res |-> 0]

\* a finished request: the handler's locals are gone, the response is sent
Done(r, code) ==
  [IdleReq EXCEPT !.op = req[r].op, !.uid = req[r].uid, !.pc = "done",
                  !.res = code]

\* ------------------------------------------------------------ the client
\* the async functions of the page that are running: task 1 is the call the
\* application makes, the others are logout() calls nobody awaits
Tasks == 1..MaxTasks
NoToken == 0

\* an HTTP call in flight: what it is (the application's call, a POST
\* /api/auth/refresh, a POST /api/auth/logout), the axios instance it was
\* made on (the global axios or the api instance of services/api), its
\* config._retry, and whether it waits for the server or for the refresh
\* call its response interceptor has made
Frame(kind, via) == [kind |-> kind, via |-> via, retry |-> FALSE, pc |-> "sent"]

\* stack: the calls awaiting one another, the innermost last; ret: the
\* settled promise on its way to the awaiting code; pair: the token pair a
\* refresh response carries; refreshCalls, retries: what the task has sent
\* so far; out: how the application's last call ended
IdleTask == [kind |-> "idle", stack |-> <<>>, ret |-> "none", pair |-> NoToken,
             refreshCalls |-> 0, retries |-> 0, out |-> "none"]

\* AuthContext.jsx:5-11 after a login: token pair 1 in localStorage (rt: the
\* stored refresh token, if any), usr: state.user
Session(rt, usr) ==
  [token |-> 1, refreshToken |-> rt, issued |-> 1, user |-> usr,
   tasks |-> [t \in Tasks |-> IdleTask]]

\* the collections at start: empty, or one completed temporary image of u1
\* (expiresAt set, File.js:116-119) that expires at the initial instant,
\* already charged to u1
InitFiles ==
  { [f \in FileIds |-> NoDoc],
    [f \in FileIds |->
       IF f = 1 THEN [NewFile("u1", MaxSize, "image", NoFile) EXCEPT !.expiresAt = 1]
       ELSE NoDoc] }

\* u1 is an ordinary account with subscription type sub that has used t of
\* its text-to-image allowance and none of the others; u2 is an administrator;
\* u3 is a fresh free account that owns no file
InitWith(sub, t) ==
  /\ files \in InitFiles
  /\ users = [u \in Users |->
               IF u = "u1"
               THEN StoredUser("user", sub,
                               SumSizes({f \in FileIds : files[f].status # Absent}, files),
                               [k \in SchemaKeys |->
                                  IF k = "textToImage" THEN t ELSE 0])
               ELSE StoredUser(IF u = "u2" THEN "admin" ELSE "user", "free", 0,
                               [k \in SchemaKeys |-> 0])]
  /\ usage = {}
  /\ req = [r \in Slots |-> IdleReq]
  /\ nextId = IF files[1].status = Absent THEN 1 ELSE 2
  /\ now = 1
  /\ credits = [f \in FileIds |-> 0]
  /\ client = Session(1, "loaded")

\* u1 starts as a paying account with its text-to-image allowance used up;
\* its subscription may lapse (AdminUpdateUser)
Init == InitWith("monthly", TextToImageLimit)

\* the protect middleware has put the account's document in req.user and
\* the route has dispatched to the handler
Begin(r, op, u, fid, size) ==
  /\ req[r].pc \in {"idle", "done"}
  /\ req' = [req EXCEPT ![r] = [IdleReq EXCEPT !.op = op, !.pc = "start",
                                  !.uid = u, !.user = LoadUser(u),
                                  !.fid = fid, !.size = size]]
  /\ UNCHANGED <<users, files, usage, nextId, now, credits, client>>

\* --------------------------------------------- uploads (image, document)
\* imageController.js:12-22 (req.file check, sharp metadata);
\* unnamed/part_001:58-65 for documents, which read no metadata
UploadStart(r) ==
  /\ req[r].op \in {"uploadImage", "uploadDoc"}
  /\ req[r].pc = "start"
  /\ \/ /\ req[r].size = 0
        /\ req' = [req EXCEPT ![r] = Done(r, 400)]
     \/ /\ req[r].size > 0
        /\ req[r].op = "uploadImage"
        /\ req' = [req EXCEPT ![r] = Done(r, 500)]
     \/ /\ req[r].size > 0
        /\ req' = [req EXCEPT ![r].pc = "create"]
  /\ UNCHANGED <<users, files, usage, nextId, now, credits, client>>

\* imageController.js:25-44, unnamed/part_001:68-79: File.create
UploadCreate(r) ==
  /\ req[r].op \in {"uploadImage", "uploadDoc"}
  /\ req[r].pc = "create"
  /\ nextId <= MaxFiles
  /\ files' = [files EXCEPT ![nextId] =
                 NewFile(req[r].uid, req[r].size,
                         IF req[r].op = "uploadImage" THEN "image" ELSE "document",
                         NoFile)]
  /\ nextId' = nextId + 1
  /\ req' = [req EXCEPT ![r].pc = "charge", ![r].newId = nextId]
  /\ UNCHANGED <<users, usage, now, credits, client>>

\* imageController.js:47-48, unnamed/part_001:82-83
UploadCharge(r) ==
  /\ req[r].op \in {"uploadImage", "uploadDoc"}
  /\ req[r].pc = "charge"
  /\ LET u == addStorageUsage(req[r].user, req[r].size)
     IN /\ users' = [users EXCEPT ![req[r].uid] = SavedUser(@, u)]
        /\ IF req[r].op = "uploadImage"
           THEN req' = [req EXCEPT ![r].user = Clean(u), ![r].pc = "log"]
           ELSE req' = [req EXCEPT ![r] = Done(r, 200)]
  /\ UNCHANGED <<files, usage, nextId, now, credits, client>>

\* imageController.js:51-86: Usage.create, then the response; a rejected
\* Usage.create lands in the handler's catch
UploadLog(r) ==
  /\ req[r].op = "uploadImage"
  /\ req[r].pc = "log"
  /\ \/ /\ usage' = usage \cup {UsageRecord(req[r].uid, "file-upload", req[r].newId)}
        /\ req' = [req EXCEPT ![r] = Done(r, 200)]
     \/ /\ usage' = usage
        /\ req' = [req EXCEPT ![r] = Done(r, 500)]
  /\ UNCHANGED <<users, files, nextId, now, credits, client>>

\* ------------------------------------------- DELETE /api/images|documents
\* the lookup of the delete routes without the comparison of file.user with
\* req.user._id
DeleteFindAnyOwner(r) ==
  /\ req[r].op = "delete"
  /\ req[r].pc = "start"
  /\ LET file == files[req[r].fid]
     IN IF file.status = Absent
        THEN req' = [req EXCEPT ![r] = Done(r, 404)]
        ELSE req' = [req EXCEPT ![r].file = file, ![r].pc = "unlink"]
  /\ UNCHANGED <<users, files, usage, nextId, now, credits, client>>

\* images.js:118-126, unnamed/part_001:215-223: findById and the owner check
DeleteFind(r) ==
  /\ req[r].op = "delete"
  /\ req[r].pc = "start"
  /\ LET file == files[req[r].fid]
     IN IF file.status = Absent \/ file.user # req[r].uid
        THEN req' = [req EXCEPT ![r] = Done(r, 404)]
        ELSE req' = [req EXCEPT ![r].file = file, ![r].pc = "unlink"]
  /\ UNCHANGED <<users, files, usage, nextId, now, credits, client>>

\* images.js:129-137: unlink (its error is swallowed), removeStorageUsage, save
DeleteCredit(r) ==
  /\ req[r].op = "delete"
  /\ req[r].pc = "unlink"
  /\ LET u == removeStorageUsage(req[r].user, req[r].file.size)
     IN /\ users' = [users EXCEPT ![req[r].uid] = SavedUser(@, u)]
        /\ req' = [req EXCEPT ![r].user = Clean(u), ![r].pc = "remove"]
  /\ credits' = [credits EXCEPT ![req[r].fid] = @ + 1]
  /\ UNCHANGED <<files, usage, nextId, now, client>>

\* a removal that takes the Files derived from the removed one with it
DeleteRemoveCascade(r) ==
  /\ req[r].op = "delete"
  /\ req[r].pc = "remove"
  /\ files' = [f \in FileIds |->
                 IF f = req[r].fid \/ files[f].parentFile = req[r].fid
                 THEN NoDoc ELSE files[f]]
  /\ req' = [req EXCEPT ![r] = Done(r, 200)]
  /\ UNCHANGED <<users, usage, nextId, now, credits, client>>

\* images.js:140-145: findByIdAndDelete, then the response
DeleteRemove(r) ==
  /\ req[r].op = "delete"
  /\ req[r].pc = "remove"
  /\ files' = [files EXCEPT ![req[r].fid] = NoDoc]
  /\ req' = [req EXCEPT ![r] = Done(r, 200)]
  /\ UNCHANGED <<users, usage, nextId, now, credits, client>>

\* ------------------------------------------ DELETE /api/admin/files/:id
\* admin.js:277-286
AdminDeleteFind(r) ==
  /\ req[r].op = "adminDelete"
  /\ req[r].pc = "start"
  /\ IF files[req[r].fid].status = Absent
     THEN req' = [req EXCEPT ![r] = Done(r, 404)]
     ELSE req' = [req EXCEPT ![r].pc = "remove"]
  /\ UNCHANGED <<users, files, usage, nextId, now, credits, client>>

\* admin.js:288-293
AdminDeleteRemove(r) ==
  /\ req[r].op = "adminDelete"
  /\ req[r].pc = "remove"
  /\ files' = [files EXCEPT ![req[r].fid] = NoDoc]
  /\ req' = [req EXCEPT ![r] = Done(r, 200)]
  /\ UNCHANGED <<users, usage, nextId, now, credits, client>>

\* ------------------------------------------------- PUT /api/admin/users/:id
\* admin.js:167-185 with a body that carries subscription.type only
AdminUpdateUser(u, sub) ==
  /\ sub # users[u].sub
  /\ users' = [users EXCEPT ![u].sub = sub]
  /\ UNCHANGED <<files, usage, req, nextId, now, credits, client>>

\* ----------------------------------------------------------- the sweeper
\* File.js:218: the filter { expiresAt: { $lt: new Date() } }; a null
\* expiresAt matches no $lt comparison
Expired(f) ==
  /\ files[f].status # Absent
  /\ files[f].expiresAt # NoExpiry
  /\ files[f].expiresAt < now

\* the File collection fs after updateMany({expiresAt < now}, {status:
\* 'deleted'}) at the present instant
Swept(fs) ==
  [f \in FileIds |->
     IF fs[f].status # Absent /\ fs[f].expiresAt # NoExpiry /\ fs[f].expiresAt < now
     THEN [fs[f] EXCEPT !.status = "deleted"]
     ELSE fs[f]]

\* a sweep that also credits the owner of every File its filter matches
cleanupExpiredCrediting ==
  /\ \E f \in FileIds : Expired(f)
  /\ files' = Swept(files)
  /\ users' = [u \in Users |->
                 [users[u] EXCEPT !.storageUsed =
                    Max(0, @ - SumSizes({f \in FileIds : Expired(f) /\ files[f].user = u},
                                        files))]]
  /\ UNCHANGED <<usage, req, nextId, now, credits, client>>

\* File.js:216-221
cleanupExpired ==
  /\ \E f \in FileIds : Expired(f)
  /\ files' = Swept(files)
  /\ UNCHANGED <<users, usage, req, nextId, now, credits, client>>

\* the clock that new Date() reads; time is observed only through the
\* comparison with expiresAt, so it stops once every expiry time has passed
Tick ==
  /\ \E f \in FileIds : files[f].status # Absent /\ files[f].expiresAt # NoExpiry
                        /\ now <= files[f].expiresAt
  /\ now' = now + 1
  /\ UNCHANGED <<users, files, usage, req, nextId, credits, client>>


\* ------------------------------------------------- POST /api/images/resize
\* (compressImage, enhanceImage and removeBackground follow the same steps)
\* imageController.js:96-125: findById, the owner and type checks and the
\* feature check, all on the documents as loaded
ResizeFind(r) ==
  /\ req[r].op = "resize"
  /\ req[r].pc = "start"
  /\ LET file == IF req[r].fid = NoFile THEN NoDoc ELSE files[req[r].fid]
         can == canUseFeature(req[r].user, "image-resize")
     IN req' = [req EXCEPT ![r] =
          IF req[r].fid = NoFile THEN Done(r, 400)
          ELSE IF file.status = Absent \/ file.user # req[r].uid THEN Done(r, 404)
          ELSE IF file.type # "image" THEN Done(r, 400)
          ELSE IF can = "throw" THEN Done(r, 500)
          ELSE IF can = "false" THEN Done(r, 403)
          ELSE [req[r] EXCEPT !.file = file, !.pc = "startProcessing"]]
  /\ UNCHANGED <<users, files, usage, nextId, now, credits, client>>

\* File.js:224-233: status and processing are set on the loaded document and
\* saved; save() of a document that was removed meanwhile rejects
startProcessing(r) ==
  /\ req[r].op = "resize"
  /\ req[r].pc = "startProcessing"
  /\ IF files[req[r].fid].status = Absent
     THEN /\ req' = [req EXCEPT ![r] = Done(r, 500)]
          /\ UNCHANGED files
     ELSE /\ files' = [files EXCEPT ![req[r].fid].status = "processing"]
          /\ req' = [req EXCEPT ![r].file.status = "processing", ![r].pc = "process"]
  /\ UNCHANGED <<users, usage, nextId, now, credits, client>>

\* imageController.js:131-166: sharp, writeFile and stat produce the output
\* and its size, or throw
ResizeProcess(r) ==
  /\ req[r].op = "resize"
  /\ req[r].pc = "process"
  /\ \/ \E s \in Sizes : req' = [req EXCEPT ![r].size = s, ![r].pc = "create"]
     \/ req' = [req EXCEPT ![r] = Done(r, 500)]
  /\ UNCHANGED <<users, files, usage, nextId, now, credits, client>>

\* imageController.js:169-187: File.create of the derived file
ResizeCreate(r) ==
  /\ req[r].op = "resize"
  /\ req[r].pc = "create"
  /\ nextId <= MaxFiles
  /\ files' = [files EXCEPT ![nextId] =
                 NewFile(req[r].uid, req[r].size, "image", req[r].fid)]
  /\ nextId' = nextId + 1
  /\ req' = [req EXCEPT ![r].newId = nextId, ![r].pc = "complete"]
  /\ UNCHANGED <<users, usage, now, credits, client>>

\* imageController.js:190-191 and File.js:249-254: relatedFiles.push and
\* completeProcessing, saved together
completeProcessing(r) ==
  /\ req[r].op = "resize"
  /\ req[r].pc = "complete"
  /\ IF files[req[r].fid].status = Absent
     THEN /\ req' = [req EXCEPT ![r] = Done(r, 500)]
          /\ UNCHANGED files
     ELSE /\ files' = [files EXCEPT
                         ![req[r].fid].status = "completed",
                         ![req[r].fid].relatedFiles = Append(@, req[r].newId)]
          /\ req' = [req EXCEPT ![r].file.status = "completed", ![r].pc = "charge"]
  /\ UNCHANGED <<users, usage, nextId, now, credits, client>>

\* imageController.js:194-195
ResizeCharge(r) ==
  /\ req[r].op = "resize"
  /\ req[r].pc = "charge"
  /\ LET u == addStorageUsage(req[r].user, req[r].size)
     IN /\ users' = [users EXCEPT ![req[r].uid] = SavedUser(@, u)]
        /\ req' = [req EXCEPT ![r].user = Clean(u), ![r].pc = "incr"]
  /\ UNCHANGED <<files, usage, nextId, now, credits, client>>

\* imageController.js:198-199
ResizeIncrement(r) ==
  /\ req[r].op = "resize"
  /\ req[r].pc = "incr"
  /\ LET u == incrementFeatureUsage(req[r].user, "image-resize")
     IN /\ users' = [users EXCEPT ![req[r].uid] = SavedUser(@, u)]
        /\ req' = [req EXCEPT ![r].user = Clean(u), ![r].pc = "log"]
  /\ UNCHANGED <<files, usage, nextId, now, credits, client>>

\* imageController.js:202-241: Usage.create, then the response; a rejected
\* Usage.create lands in the handler's catch
ResizeLog(r) ==
  /\ req[r].op = "resize"
  /\ req[r].pc = "log"
  /\ \/ /\ usage' = usage \cup {UsageRecord(req[r].uid, "image-resize", req[r].newId)}
        /\ req' = [req EXCEPT ![r] = Done(r, 200)]
     \/ /\ usage' = usage
        /\ req' = [req EXCEPT ![r] = Done(r, 500)]
  /\ UNCHANGED <<users, files, nextId, now, credits, client>>

\* ----------------------------------------------- POST /api/ai/text-to-image
\* videoController.js:601-623: the prompt (size 0 stands for a request with
\* no prompt) and the feature check; OPENAI_API_KEY is configured
TextToImageStart(r) ==
  /\ req[r].op = "textToImage"
  /\ req[r].pc = "start"
  /\ LET can == canUseFeature(req[r].user, "text-to-image")
     IN req' = [req EXCEPT ![r] =
          IF req[r].size = 0 THEN Done(r, 400)
          ELSE IF can = "throw" THEN Done(r, 500)
          ELSE IF can = "false" THEN Done(r, 403)
          ELSE [req[r] EXCEPT !.pc = "generate"]]
  /\ UNCHANGED <<users, files, usage, nextId, now, credits, client>>

\* videoController.js:645-668, 764-779: images.generate throws (outer catch),
\* or the download of the image throws (inner catch, answered 200 with the
\* external URL), or the image is on disk with its size
TextToImageGenerate(r) ==
  /\ req[r].op = "textToImage"
  /\ req[r].pc = "generate"
  /\ \/ req' = [req EXCEPT ![r] = Done(r, 500)]
     \/ req' = [req EXCEPT ![r] = Done(r, 200)]
     \/ \E s \in Sizes : req' = [req EXCEPT ![r].size = s, ![r].pc = "create"]
  /\ UNCHANGED <<users, files, usage, nextId, now, credits, client>>

\* videoController.js:673-693
TextToImageCreate(r) ==
  /\ req[r].op = "textToImage"
  /\ req[r].pc = "create"
  /\ nextId <= MaxFiles
  /\ files' = [files EXCEPT ![nextId] =
                 NewFile(req[r].uid, req[r].size, "image", NoFile)]
  /\ nextId' = nextId + 1
  /\ req' = [req EXCEPT ![r].newId = nextId, ![r].pc = "charge"]
  /\ UNCHANGED <<users, usage, now, credits, client>>

\* videoController.js:696-697
TextToImageCharge(r) ==
  /\ req[r].op = "textToImage"
  /\ req[r].pc = "charge"
  /\ LET u == addStorageUsage(req[r].user, req[r].size)
     IN /\ users' = [users EXCEPT ![req[r].uid] = SavedUser(@, u)]
        /\ req' = [req EXCEPT ![r].user = Clean(u), ![r].pc = "log"]
  /\ UNCHANGED <<files, usage, nextId, now, credits, client>>

\* videoController.js:700-717; a rejected Usage.create lands in the inner
\* catch (745-762), which answers 200 with the provider's URL
TextToImageLog(r) ==
  /\ req[r].op = "textToImage"
  /\ req[r].pc = "log"
  /\ \/ /\ usage' = usage \cup {UsageRecord(req[r].uid, "text-to-image", req[r].newId)}
        /\ req' = [req EXCEPT ![r].pc = "incr"]
     \/ /\ usage' = usage
        /\ req' = [req EXCEPT ![r] = Done(r, 200)]
  /\ UNCHANGED <<users, files, nextId, now, credits, client>>

\* videoController.js:720-744
TextToImageIncrement(r) ==
  /\ req[r].op = "textToImage"
  /\ req[r].pc = "incr"
  /\ LET u == incrementFeatureUsage(req[r].user, "text-to-image")
     IN /\ users' = [users EXCEPT ![req[r].uid] = SavedUser(@, u)]
        /\ req' = [req EXCEPT ![r] = Done(r, 200)]
  /\ UNCHANGED <<files, usage, nextId, now, credits, client>>

\* ------------------------------------------------------- specifications
\* the steps of the handler running in slot r
Step(r) ==
  \/ UploadStart(r)
  \/ UploadCreate(r)
  \/ UploadCharge(r)
  \/ UploadLog(r)
  \/ DeleteFind(r)
  \/ DeleteCredit(r)
  \/ DeleteRemove(r)
  \/ AdminDeleteFind(r)
  \/ AdminDeleteRemove(r)
  \/ ResizeFind(r)
  \/ startProcessing(r)
  \/ ResizeProcess(r)
  \/ ResizeCreate(r)
  \/ completeProcessing(r)
  \/ ResizeCharge(r)
  \/ ResizeIncrement(r)
  \/ ResizeLog(r)
  \/ TextToImageStart(r)
  \/ TextToImageGenerate(r)
  \/ TextToImageCreate(r)
  \/ TextToImageCharge(r)
  \/ TextToImageLog(r)
  \/ TextToImageIncrement(r)

\* the accounts that send requests to the user routes: the owner of the
\* files and an account that owns none
Callers == {"u1", "u3"}

\* the requests that arrive in slot r
Arrive(r) ==
  \/ \E s \in {0} \cup Sizes, op \in {"uploadImage", "uploadDoc"} :
        Begin(r, op, "u1", NoFile, s)
  \/ \E u \in Callers, f \in FileIds : Begin(r, "delete", u, f, 0)
  \/ \E u \in Users, f \in FileIds :
        users[u].role = "admin" /\ Begin(r, "adminDelete", u, f, 0)
  \/ \E u \in Callers, f \in FileIds \cup {NoFile} : Begin(r, "resize", u, f, 0)
  \/ \E s \in 0..1 : Begin(r, "textToImage", "u1", NoFile, s)

Environment ==
  \/ AdminUpdateUser("u1", "free")
  \/ cleanupExpired
  \/ Tick

\* requests served one at a time
Next ==
  \/ Arrive("r1")
  \/ Step("r1")
  \/ Environment

Spec == Init /\ [][Next]_vars

\* unnamed/part_003:202-226: calculateCost sets cost.credits of an existing
\* Usage document from the table and saves it
calculateCost(rec) ==
  /\ rec.credits # Cost(rec.feature)
  /\ usage' = (usage \ {rec}) \cup {[rec EXCEPT !.credits = Cost(rec.feature)]}
  /\ UNCHANGED <<users, files, req, nextId, now, credits, client>>

\* the requests served one at a time, and the costing of logged usage
NextUsage ==
  \/ Next
  \/ \E rec \in usage : calculateCost(rec)

SpecUsage == Init /\ [][NextUsage]_vars

\* two requests of the account u1 in flight at once
ArriveConc(r) ==
  \/ \E s \in Sizes : Begin(r, "uploadImage", "u1", NoFile, s)
  \/ \E f \in FileIds : Begin(r, "delete", "u1", f, 0)
  \/ Begin(r, "textToImage", "u1", NoFile, 1)

StepConc(r) ==
  \/ UploadStart(r)
  \/ UploadCreate(r)
  \/ UploadCharge(r)
  \/ UploadLog(r)
  \/ DeleteFind(r)
  \/ DeleteCredit(r)
  \/ DeleteRemove(r)
  \/ TextToImageStart(r)
  \/ TextToImageGenerate(r)
  \/ TextToImageCreate(r)
  \/ TextToImageCharge(r)
  \/ TextToImageLog(r)
  \/ TextToImageIncrement(r)

NextConc == \E r \in Slots : ArriveConc(r) \/ StepConc(r)

\* u1 has one text-to-image use left and is a free or a paying account
InitConc ==
  \E sub \in {"free", "monthly"} : InitWith(sub, TextToImageLimit - 1)

SpecConc == InitConc /\ [][NextConc]_vars

TypeOK ==
  /\ \A u \in Users : users[u].storageUsed >= 0
  /\ nextId \in 1..(MaxFiles + 1)
  /\ \A r \in Slots : req[r].res \in {0, 200, 400, 403, 404, 500}

\* ------------------------------------------------------------ properties
Quiescent == \A r \in Slots : req[r].pc \in {"idle", "done"}

\* an account on which the usage limits apply (User.js:181-182)
Limited(user) == user.role # "admin" /\ user.sub = "free"

\* the counter of userSchema.features that a handler's feature name refers to
CounterOf(featureName) ==
  CASE featureName = "text-to-image" -> "textToImage"
    [] featureName = "image-to-text" -> "imageToText"
    [] featureName \in SchemaKeys -> featureName
    [] OTHER -> Undefined

\* the step of request r that saves a storage charge / a storage credit
IsCharge(r) == req[r].pc = "charge" /\ req'[r].pc # "charge"
IsCredit(r) == req[r].op = "delete" /\ req[r].pc = "unlink" /\ req'[r].pc = "remove"

\* C1: whenever no request is in flight, every account's features.storage.used
\* equals the sum of size over its File records in status completed or
\* processing.
C1_StorageEqualsLiveSum ==
  Quiescent => \A u \in Users : users[u].storageUsed = LiveSum(u)

C3_AtomicReservation ==
  [][\A r \in Slots :
       (/\ req[r].op = "textToImage" /\ req[r].pc = "start" /\ req'[r].pc # "start"
        /\ req[r].size # 0
        /\ Limited(users[req[r].uid]))
       => LET k == CounterOf("text-to-image")
              used == users[req[r].uid].featUsed[k]
          IN IF used < featureLimit[k]
             THEN /\ req'[r].pc = "generate"
                  /\ users'[req[r].uid].featUsed[k] = used + 1
             ELSE /\ req'[r].pc = "done" /\ req'[r].res = 403
                  /\ users' = users]_vars

\* C4: every storage adjustment is applied to the stored counter as it is at
\* the moment of the save, so the adjustments of interleaved requests add up.
C4_NoLostUpdate ==
  [][\A r \in Slots :
       /\ IsCharge(r) =>
            users'[req[r].uid].storageUsed
              = users[req[r].uid].storageUsed + req[r].size
       /\ IsCredit(r) =>
            users'[req[r].uid].storageUsed
              = Max(0, users[req[r].uid].storageUsed - req[r].file.size)]_vars

\* C5: a File is credited to its owner's storage at most once, and a delete
\* request of the owner for a File that a delete has already handled is not
\* answered with an error.
C5_DeleteOnce ==
  [][\A r \in Slots :
       /\ IsCredit(r) => credits[req[r].fid] = 0
       /\ (/\ req[r].op = "delete" /\ req[r].pc = "start" /\ req'[r].pc # "start"
           /\ req[r].uid = "u1"
           /\ credits[req[r].fid] > 0)
          => ~(req'[r].pc = "done" /\ req'[r].res # 200)]_vars

\* C6: a text-to-image request of a free account whose counter equals the
\* limit is answered 403 and leaves the accounts, the File records and the
\* usage log as they are.
C6_DeniedAtLimit ==
  [][\A r \in Slots :
       (/\ req[r].op = "textToImage" /\ req[r].pc = "start" /\ req'[r].pc # "start"
        /\ req[r].size # 0
        /\ Limited(req[r].user)
        /\ req[r].user.featUsed[CounterOf("text-to-image")]
             = featureLimit[CounterOf("text-to-image")])
       => /\ req'[r].pc = "done" /\ req'[r].res = 403
          /\ UNCHANGED <<users, files, usage>>]_vars

\* C7: the storage charge for a derived or generated file is saved only if
\* the account has room for it (hasStorageSpace).
C7_ChargeWithinLimit ==
  [][\A r \in Slots :
       (IsCharge(r) /\ req[r].op \in {"resize", "textToImage"})
       => hasStorageSpace(users[req[r].uid], req[r].size)]_vars

\* C8: an upload goes ahead only if the account has room for it, and the
\* credit of a delete takes the File's size off the counter again.
C8_UploadNeedsRoom ==
  [][\A r \in Slots :
       /\ (/\ req[r].op = "uploadImage" /\ req[r].pc = "start"
           /\ req'[r].pc = "create")
          => hasStorageSpace(users[req[r].uid], req[r].size)
       /\ (IsCredit(r) /\ users[req[r].uid].storageUsed >= req[r].file.size)
          => users'[req[r].uid].storageUsed
               = users[req[r].uid].storageUsed - req[r].file.size]_vars

\* C9: a File record in status deleted keeps that status for as long as the
\* record exists.
C9_DeletedIsTerminal ==
  [][\A f \in FileIds :
       files[f].status = "deleted" => files'[f].status \in {"deleted", Absent}]_vars

\* C10: startProcessing on a File whose status is processing, failed or
\* deleted fails and leaves the File as it is.
C10_StartProcessingGuard ==
  [][\A r \in Slots :
       (/\ req[r].op = "resize" /\ req[r].pc = "startProcessing"
        /\ req'[r].pc # "startProcessing"
        /\ files[req[r].fid].status \in {"processing", "failed", "deleted"})
       => /\ files' = files
          /\ req'[r].pc = "done" /\ req'[r].res # 200]_vars

\* C11: a resize request whose source File is in status deleted or belongs
\* to another account ends in an error and creates no File record, no
\* relatedFiles entry and no storage charge.
C11_InvalidParentRejected ==
  [][\A r \in Slots :
       (/\ req[r].op = "resize" /\ req[r].pc = "start" /\ req'[r].pc # "start"
        /\ req[r].fid # NoFile
        /\ files[req[r].fid].status # Absent
        /\ \/ files[req[r].fid].status = "deleted"
           \/ files[req[r].fid].user # req[r].uid)
       => /\ req'[r].pc = "done" /\ req'[r].res # 200
          /\ UNCHANGED <<users, files>>]_vars

\* does following parentFile from f end, within n hops, at an existing File
\* that has no parent
RECURSIVE ReachesRoot(_, _)
ReachesRoot(f, n) ==
  /\ files[f].status # Absent
  /\ \/ files[f].parentFile = NoFile
     \/ n > 0 /\ ReachesRoot(files[f].parentFile, n - 1)

\* C12: from every existing File, following parentFile ends at an existing
\* File with no parent within MaxFiles hops (so no File is visited twice).
C12_LineageForest ==
  \A f \in FileIds : files[f].status # Absent => ReachesRoot(f, MaxFiles)

\* a run of the sweeper that changed something: the only step that leaves
\* the requests, the clock and the subscriptions alone
SweepStep ==
  /\ UNCHANGED <<req, now, usage, nextId>>
  /\ \A u \in Users : users'[u].sub = users[u].sub
  /\ <<files, users>>' # <<files, users>>

\* C13: after a run of the sweeper a second run at the same instant changes
\* no File, and a run takes off an owner's storage counter at most the sizes
\* of the Files whose status it changes in that run.
C13_SweepIdempotent ==
  [][SweepStep =>
       /\ Swept(files') = files'
       /\ \A u \in Users :
            users[u].storageUsed - users'[u].storageUsed
              <= SumSizes({f \in FileIds : /\ files[f].user = u
                                           /\ files[f].status # "deleted"
                                           /\ files'[f].status = "deleted"},
                          files)]_vars

\* the sweeper has marked a File deleted and its filter still matches it
C13_Witness ==
  \E f \in FileIds : Expired(f) /\ files[f].status = "deleted"

\* C14: a run of the sweeper changes only Files whose expiresAt is set and
\* not later than now and whose status is completed or failed; every other
\* File is left as it is.
C14_SweepFrame ==
  [][SweepStep =>
       \A f \in FileIds :
         files'[f] # files[f]
         => /\ files[f].expiresAt # NoExpiry
            /\ files[f].expiresAt <= now
            /\ files[f].status \in {"completed", "failed"}]_vars

\* C15: whenever a File leaves the charged set (status completed or
\* processing) by being marked deleted or removed, the owner's storage
\* counter is lowered by the File's size in the same step, or the step
\* belongs to a delete request that has saved exactly one credit for it.
C15_RemovalCredited ==
  [][\A f \in FileIds :
       (/\ files[f].status \in {"completed", "processing"}
        /\ files'[f].status \in {"deleted", Absent})
       => \/ users'[files[f].user].storageUsed
               = users[files[f].user].storageUsed - files[f].size
          \/ \E r \in Slots : /\ req[r].op = "delete" /\ req[r].fid = f
                              /\ req[r].pc = "remove"
                              /\ credits[f] = 1]_vars

\* C16: a delete request for an existing File by an account that neither
\* owns it nor is an administrator is answered 404 and changes no File, no
\* account and no usage record; such a request never gets to the credit or
\* the removal.
C16_ForeignDeleteRejected ==
  [][\A r \in Slots :
       /\ (/\ req[r].op = "delete" /\ req[r].pc = "start" /\ req'[r].pc # "start"
           /\ files[req[r].fid].status # Absent
           /\ files[req[r].fid].user # req[r].uid
           /\ users[req[r].uid].role # "admin")
          => /\ req'[r].pc = "done" /\ req'[r].res = 404
             /\ UNCHANGED <<users, files, usage>>
       /\ (req'[r].op = "delete" /\ req'[r].pc \in {"unlink", "remove"})
          => req'[r].file.user = req'[r].uid]_vars

\* u3, who owns no File, has had a delete request turned away while every
\* File id holds a File of u1
C16_Witness ==
  /\ req["r1"].op = "delete" /\ req["r1"].pc = "done"
  /\ req["r1"].uid = "u3" /\ req["r1"].res = 404
  /\ \A f \in FileIds : files[f].status # Absent /\ files[f].user = "u1"
  /\ users["u1"].storageUsed = LiveSum("u1")

\* the existing Files derived from File p
Children(p) ==
  {g \in FileIds : files[g].status # Absent /\ files[g].parentFile = p}

\* C17: when a File that has children is deleted (user or admin route), the
\* removal changes no other File and no account, and the credit of the user
\* route takes no more than the deleted File's own size off the counter, so
\* the children stay as they are and stay counted.
C17_NoCascade ==
  [][\A r \in Slots :
       (req[r].op \in {"delete", "adminDelete"} /\ Children(req[r].fid) # {})
       => /\ (req[r].pc = "remove" /\ req'[r].pc = "done")
             => /\ \A g \in FileIds \ {req[r].fid} : files'[g] = files[g]
                /\ users' = users
          /\ IsCredit(r)
             => /\ files' = files
                /\ users[req[r].uid].storageUsed - users'[req[r].uid].storageUsed
                     <= files[req[r].fid].size]_vars

\* u1 has deleted a File whose child is still there, completed and counted
C17_Witness ==
  /\ req["r1"].op = "delete" /\ req["r1"].pc = "done" /\ req["r1"].res = 200
  /\ \E g \in FileIds :
       /\ files[g].status = "completed"
       /\ files[g].parentFile # NoFile
       /\ files[files[g].parentFile].status = Absent
       /\ users[files[g].user].storageUsed >= files[g].size

\* C18: a usage record, once in the log, stays in it with every field as it
\* was written: the log changes only by inserts.
C18_UsageAppendOnly ==
  [][\A rec \in usage : rec \in usage']_vars

\* C19: when the audit write of a request is rejected (the log step adds no
\* record), the request goes on exactly as after a successful write: an
\* upload or a resize is answered 200, a text-to-image request goes on to
\* its counter increment.
C19_AuditFailureNotFatal ==
  [][\A r \in Slots :
       (req[r].pc = "log" /\ req'[r].pc # "log" /\ usage' = usage)
       => /\ UNCHANGED <<users, files>>
          /\ IF req[r].op = "textToImage"
             THEN req'[r].pc = "incr"
             ELSE req'[r].pc = "done" /\ req'[r].res = 200]_vars

\* the step of request r that saves its feature-counter increment
IsIncrement(r) == req[r].pc = "incr" /\ req'[r].pc # "incr"

\* request r has performed its processing: the output File, created right
\* after sharp or the image generation returned, exists
Processed(r) == req[r].newId # NoFile

\* C20: in a resize or text-to-image request the counter increment and the
\* storage charge are both saved before processing is performed.
C20_ReserveChargeProcess ==
  [][\A r \in Slots :
       (req[r].op \in {"resize", "textToImage"} /\ (IsCharge(r) \/ IsIncrement(r)))
       => ~Processed(r)]_vars

\* every request in flight runs on to its response, and requests keep
\* arriving; nothing else is scheduled (the source starts no timer and no
\* background job)
SpecLive ==
  Init /\ [][Next]_vars /\ WF_vars(Step("r1")) /\ WF_vars(Arrive("r1"))

\* a request waits forever for a File id beyond the ids of the model
OutOfIds == \E r \in Slots : req[r].pc = "create" /\ nextId > MaxFiles

\* C21: a File in status processing eventually leaves that status (as long
\* as the File ids of the model last).
C21_ProcessingEnds ==
  \A f \in FileIds :
    (files[f].status = "processing") ~> (files[f].status # "processing" \/ OutOfIds)

\* ------------------------------------------- the User methods on their own
\* the names the methods are called with: the handlers' names and a key of
\* userSchema.features
MethodNames == FeatureNames \cup {"textToImage"}

\* an account document of any role and subscription type (User.js:32-42;
\* PUT /api/admin/users/:id stores either field on its own), its
\* text-to-image counter at 0 or at the limit; no File, no request
InitUser ==
  /\ \E role \in Roles, sub \in SubscriptionTypes, t \in {0, TextToImageLimit} :
       users = [u \in Users |->
                  IF u = "u1"
                  THEN StoredUser(role, sub, 0,
                                  [k \in SchemaKeys |->
                                     IF k = "textToImage" THEN t ELSE 0])
                  ELSE StoredUser("user", "free", 0, [k \in SchemaKeys |-> 0])]
  /\ files = [f \in FileIds |-> NoDoc]
  /\ usage = {}
  /\ req = [r \in Slots |-> IdleReq]
  /\ nextId = 1
  /\ now = 1
  /\ credits = [f \in FileIds |-> 0]
  /\ client = Session(1, "loaded")

\* the record of a method call on the document of u: the document as it was
\* before the call, the size passed, and the outcome
Called(method, u, size, code) ==
  [IdleReq EXCEPT !.op = method, !.pc = "done", !.uid = u,
                  !.user = LoadUser(u), !.size = size, !.res = code]

\* the feature check every handler opens with (imageController.js:120-125):
\* 403 when canUseFeature returns false, the catch's 500 when it throws, and
\* no response yet (0) when it returns true
FeatureCheck(r, u, featureName) ==
  /\ LET can == canUseFeature(LoadUser(u), featureName)
     IN req' = [req EXCEPT ![r] =
                  Called("canUseFeature", u, 0,
                         IF can = "true" THEN 0
                         ELSE IF can = "false" THEN 403 ELSE 500)]
  /\ UNCHANGED <<users, files, usage, nextId, now, credits, client>>

\* incrementFeatureUsage and save (imageController.js:198-199); the counter
\* is followed up to one past its limit
FeatureIncrement(r, u, featureName) ==
  /\ \A k \in SchemaKeys : users[u].featUsed[k] <= featureLimit[k]
  /\ users' = [users EXCEPT ![u] =
                 SavedUser(@, incrementFeatureUsage(LoadUser(u), featureName))]
  /\ req' = [req EXCEPT ![r] = Called("incrementFeatureUsage", u, 0, 0)]
  /\ UNCHANGED <<files, usage, nextId, now, credits, client>>

\* addStorageUsage and save (imageController.js:47-48); the counter is
\* followed up to one file past the limit
StorageAdd(r, u, size) ==
  /\ users[u].storageUsed + size <= StorageLimit + MaxSize
  /\ users' = [users EXCEPT ![u] =
                 SavedUser(@, addStorageUsage(LoadUser(u), size))]
  /\ req' = [req EXCEPT ![r] = Called("addStorageUsage", u, size, 0)]
  /\ UNCHANGED <<files, usage, nextId, now, credits, client>>

\* removeStorageUsage and save (images.js:135-137)
StorageRemove(r, u, size) ==
  /\ users' = [users EXCEPT ![u] =
                 SavedUser(@, removeStorageUsage(LoadUser(u), size))]
  /\ req' = [req EXCEPT ![r] = Called("removeStorageUsage", u, size, 0)]
  /\ UNCHANGED <<files, usage, nextId, now, credits, client>>

NextUser ==
  \/ \E n \in MethodNames : FeatureCheck("r1", "u1", n)
  \/ \E n \in MethodNames : FeatureIncrement("r1", "u1", n)
  \/ \E s \in 0..MaxSize : StorageAdd("r1", "u1", s)
  \/ \E s \in 0..MaxSize : StorageRemove("r1", "u1", s)

SpecUser == InitUser /\ [][NextUser]_vars

\* the tier of the account grants unlimited use (README: premium tier)
Unlimited(user) == user.role \in {"admin", "premium"} \/ user.sub # "free"

\* C22: the feature check of an account whose role is admin or premium, or
\* whose subscription type is not free, never answers 403 (feature limit
\* reached), whatever the counter says.
C22_UnlimitedNeverDenied ==
  \A r \in Slots :
    (req[r].op = "canUseFeature" /\ Unlimited(req[r].user)) => req[r].res # 403

\* request r has saved the storage charge for the File it created, or saves
\* it in this step
ChargeSaved(r) ==
  req[r].newId # NoFile /\ req[r].pc \in {"charge", "incr", "log"}

\* C23: when a request that has saved a storage charge for a File ends, the
\* usage log holds exactly one record of that account for that File.
C23_ChargeLogged ==
  [][\A r \in Slots :
       (ChargeSaved(r) /\ req'[r].pc = "done")
       => Cardinality({rec \in usage' : rec.user = req[r].uid
                                        /\ rec.file = req[r].newId}) = 1]_vars

\* ------------------------------------------------- the client's 401 handling
Pop(st) == SubSeq(st, 1, Len(st) - 1)

\* the task slots no async function occupies
FreeTasks(c) == {u \in Tasks : c.tasks[u].kind = "idle"}

\* AuthContext.jsx:240-242: logout() is called and not awaited; it runs up to
\* its await, the POST /api/auth/logout on the global axios
StartLogout(c, u) ==
  [c EXCEPT !.tasks[u] = [IdleTask EXCEPT !.kind = "logout",
                                          !.stack = <<Frame("logout", "axios")>>]]

\* the application makes an authenticated call: GET /api/auth/me of checkAuth
\* on a freshly loaded page (AuthContext.jsx:153-158), PUT /api/auth/profile
\* of updateProfile (254-256), both on the global axios, or a call on the api
\* instance (unnamed/part_006:78-140)
ClientCall(t, kind) ==
  /\ client.tasks[t].kind = "idle"
  /\ client.token # NoToken
  /\ kind = "me" => client.user = "none"
  /\ kind = "profile" => client.user = "loaded"
  /\ client' = [client EXCEPT !.tasks[t] =
                  [IdleTask EXCEPT !.kind = kind,
                                   !.stack = <<Frame("call", IF kind = "api" THEN "api"
                                                            ELSE "axios")>>]]
  /\ UNCHANGED <<users, files, usage, req, nextId, now, credits>>

\* the server answers the innermost call of task t with status s.  A 2xx
\* resolves the call.  Otherwise the response interceptor of the instance
\* runs (AuthContext.jsx:100-110, 137; unnamed/part_006:31-40, 60): on a 401
\* for a config without _retry it sets _retry and, if localStorage holds a
\* refresh token, posts /api/auth/refresh on the global axios and awaits it;
\* in every other case it rejects
Respond(t, s) ==
  LET task == client.tasks[t]
      n == Len(task.stack)
      top == task.stack[n]
  IN /\ task.kind # "idle"
     /\ task.ret = "none"
     /\ n > 0
     /\ top.pc = "sent"
     /\ IF s = 200
        THEN /\ top.kind = "refresh" => client.issued < MaxTokens
             /\ client' = [client EXCEPT
                  !.issued = IF top.kind = "refresh" THEN @ + 1 ELSE @,
                  !.tasks[t].pair = IF top.kind = "refresh" THEN client.issued + 1 ELSE @,
                  !.tasks[t].stack = Pop(@),
                  !.tasks[t].ret = "ok"]
        ELSE IF s = 401 /\ ~top.retry /\ client.refreshToken # NoToken
        THEN /\ n < MaxDepth
             /\ client' = [client EXCEPT
                  !.tasks[t].stack =
                     Append([@ EXCEPT ![n].retry = TRUE, ![n].pc = "refreshing"],
                            Frame("refresh", "axios")),
                  !.tasks[t].refreshCalls = @ + 1]
        ELSE client' = [client EXCEPT !.tasks[t].stack = Pop(@),
                                      !.tasks[t].ret = "rejected"]
     /\ UNCHANGED <<users, files, usage, req, nextId, now, credits>>

\* the refresh call that the interceptor of the innermost call of task t
\* awaits has settled.
\* AuthContext.jsx:111-134: the new pair is stored; building the AUTH_SUCCESS
\* action reads state.user, and no state is in scope in
\* setupAxiosInterceptors, so a ReferenceError is thrown inside the try: the
\* catch calls logout() and rejects, exactly as after a rejected refresh.
\* unnamed/part_006:42-57: the new pair is stored and the call is sent again;
\* after a rejected refresh the tokens are removed and the page is sent to
\* /login, which ends every async function of the page.
Resume(t) ==
  LET task == client.tasks[t]
      n == Len(task.stack)
      stored == IF task.ret = "ok"
                THEN [client EXCEPT !.token = task.pair, !.refreshToken = task.pair]
                ELSE client
  IN IF task.stack[n].via = "axios"
     THEN /\ FreeTasks(client) # {}
          /\ client' = [StartLogout(stored, CHOOSE u \in FreeTasks(client) :
                                              \A v \in FreeTasks(client) : u <= v)
                          EXCEPT !.tasks[t].stack = Pop(@),
                                 !.tasks[t].ret = "rejected"]
     ELSE IF task.ret = "ok"
     THEN client' = [stored EXCEPT !.tasks[t].stack[n].pc = "sent",
                                   !.tasks[t].ret = "none",
                                   !.tasks[t].retries = @ + 1]
     ELSE client' = [client EXCEPT !.token = NoToken, !.refreshToken = NoToken,
                                   !.user = "none",
                                   !.tasks = [u \in Tasks |-> IdleTask]]

\* the outermost call of task t has settled and the async function that made
\* it goes on: logout() removes the tokens and dispatches LOGOUT whatever the
\* outcome (AuthContext.jsx:243-250); checkAuth dispatches AUTH_SUCCESS or
\* calls logout() (159-170); updateProfile dispatches UPDATE_USER or
\* AUTH_FAILURE (258-270)
Finish(t) ==
  LET task == client.tasks[t]
      ended == [IdleTask EXCEPT !.out = task.ret]
  IN CASE task.kind = "logout" ->
            client' = [client EXCEPT !.token = NoToken, !.refreshToken = NoToken,
                                     !.user = "none", !.tasks[t] = IdleTask]
       [] task.kind = "me" /\ task.ret = "ok" ->
            client' = [client EXCEPT !.user = "loaded", !.tasks[t] = ended]
       [] task.kind = "me" /\ task.ret # "ok" ->
            /\ FreeTasks(client) # {}
            /\ client' = [StartLogout(client, CHOOSE u \in FreeTasks(client) :
                                                \A v \in FreeTasks(client) : u <= v)
                            EXCEPT !.tasks[t] = ended]
       [] task.kind = "profile" /\ task.ret # "ok" ->
            client' = [client EXCEPT !.user = "none", !.tasks[t] = ended]
       [] OTHER -> client' = [client EXCEPT !.tasks[t] = ended]

\* a settled promise is handed to the code that awaits it
Deliver(t) ==
  /\ client.tasks[t].kind # "idle"
  /\ client.tasks[t].ret # "none"
  /\ IF client.tasks[t].stack = <<>> THEN Finish(t) ELSE Resume(t)
  /\ UNCHANGED <<users, files, usage, req, nextId, now, credits>>

\* the statuses the server answers with
Statuses401 == {200, 401, 500}

NextClient ==
  \/ \E kind \in {"me", "profile", "api"} : ClientCall(1, kind)
  \/ \E t \in Tasks, s \in Statuses401 : Respond(t, s)
  \/ \E t \in Tasks : Deliver(t)

\* a page with token pair 1 in localStorage, with or without the refresh
\* token, freshly loaded (state.user null) or with the user loaded; the
\* server's collections play no part
InitClient ==
  /\ \E rt \in {NoToken, 1}, usr \in {"none", "loaded"} : client = Session(rt, usr)
  /\ users = [u \in Users |-> StoredUser("user", "free", 0, [k \in SchemaKeys |-> 0])]
  /\ files = [f \in FileIds |-> NoDoc]
  /\ usage = {}
  /\ req = [r \in Slots |-> IdleReq]
  /\ nextId = 1
  /\ now = 1
  /\ credits = [f \in FileIds |-> 0]

SpecClient == InitClient /\ [][NextClient]_vars

\* the refresh call made for the application's call of task t, which had been
\* answered 401, has succeeded, and the awaiting interceptor runs in this step
RefreshSucceeded(t) ==
  /\ client.tasks[t].ret = "ok"
  /\ Len(client.tasks[t].stack) = 1
  /\ client.tasks[t].stack[1].kind = "call"
  /\ client.tasks[t].stack[1].pc = "refreshing"
  /\ client'.tasks[t] # client.tasks[t]

\* C24: when the refresh call made for a call that was answered 401 has
\* succeeded, the interceptor stores the new token pair, sends the original
\* call again, starts no logout and leaves state.user as it is.
C24_TokenRenewal ==
  [][\A t \in Tasks :
       RefreshSucceeded(t)
       => /\ client'.token = client.tasks[t].pair
          /\ client'.refreshToken = client.tasks[t].pair
          /\ Len(client'.tasks[t].stack) = 1
          /\ client'.tasks[t].stack[1].pc = "sent"
          /\ client'.tasks[t].stack[1].retry
          /\ client'.user = client.user
          /\ \A u \in Tasks : client'.tasks[u].kind = "logout"
                              => client.tasks[u].kind = "logout"]_vars

\* C25: the step that begins a transformation of a completed File leaves
\* that File completed and creates a child File in status processing whose
\* parentFile is the source; and a transformation that ends in an error
\* leaves its source File, if it still exists, completed.
C25_ParentStaysCompleted ==
  [][\A r \in Slots :
       /\ (/\ req[r].op = "resize" /\ req[r].pc = "startProcessing"
           /\ req'[r].pc # "startProcessing"
           /\ files[req[r].fid].status = "completed")
          => /\ files'[req[r].fid].status = "completed"
             /\ \E g \in FileIds :
                  /\ files[g].status = Absent
                  /\ files'[g].status = "processing"
                  /\ files'[g].parentFile = req[r].fid
       /\ (/\ req[r].op = "resize"
           /\ req[r].pc \in {"process", "create", "complete", "charge", "incr", "log"}
           /\ req'[r].pc = "done" /\ req'[r].res # 200
           /\ files'[req[r].fid].status # Absent)
          => files'[req[r].fid].status = "completed"]_vars

\* features.storage.used as request r found it: the loaded document carries
\* the request's own charge once the charge has been saved
UsedAtStart(r) ==
  IF req[r].pc \in {"incr", "log"}
  THEN req[r].user.storageUsed - req[r].size
  ELSE req[r].user.storageUsed

\* C26: when a resize or text-to-image request ends with an error response,
\* the account's features.storage.used is what it was when the request
\* began, and the File the request has created, if any, is in status failed.
C26_FailureRollsBack ==
  [][\A r \in Slots :
       (/\ req[r].op \in {"resize", "textToImage"}
        /\ req[r].pc \notin {"idle", "start", "done"}
        /\ req'[r].pc = "done" /\ req'[r].res # 200)
       => /\ users'[req[r].uid].storageUsed = UsedAtStart(r)
          /\ req[r].newId # NoFile => files'[req[r].newId].status = "failed"]_vars

\* the feature name the handler of a request passes to canUseFeature and
\* incrementFeatureUsage (imageController.js:120, 198; videoController.js:
\* 611, 721)
FeatureOf(op) == IF op = "resize" THEN "image-resize" ELSE "text-to-image"

\* C27: when a resize or text-to-image request of an account on which the
\* limits apply is answered 200, the feature has a counter in
\* userSchema.features and that counter is one above what it was when the
\* request began.
C27_SuccessCountsOnce ==
  [][\A r \in Slots :
       (/\ req[r].op \in {"resize", "textToImage"}
        /\ req[r].pc \notin {"idle", "start", "done"}
        /\ req'[r].pc = "done" /\ req'[r].res = 200
        /\ Limited(users'[req[r].uid]))
       => LET k == CounterOf(FeatureOf(req[r].op))
          IN /\ k # Undefined
             /\ users'[req[r].uid].featUsed[k] = req[r].user.featUsed[k] + 1]_vars

\* ------------------------------------------- the File methods on their own
\* File.js:236-246: updateProgress(progress, error) on the File f
updateProgress(f, progress, error) ==
  /\ files[f].status # Absent
  /\ files' = [files EXCEPT ![f].status =
                 IF error THEN "failed"
                 ELSE IF progress >= 100 THEN "completed" ELSE @]
  /\ UNCHANGED <<users, usage, req, nextId, now, credits, client>>

\* File.js:224-233: startProcessing on the File f
FileStartProcessing(f) ==
  /\ files[f].status # Absent
  /\ files' = [files EXCEPT ![f].status = "processing"]
  /\ UNCHANGED <<users, usage, req, nextId, now, credits, client>>

\* File.getStorageUsage(userId) is called; the request keeps totalSize
StorageUsageQuery(r, u) ==
  /\ req' = [req EXCEPT ![r] = [IdleReq EXCEPT !.op = "getStorageUsage",
                                               !.pc = "done", !.uid = u,
                                               !.size = getStorageUsage(u)]]
  /\ UNCHANGED <<users, files, usage, nextId, now, credits, client>>

NextFiles ==
  \/ \E f \in FileIds, progress \in {50, 100}, error \in BOOLEAN :
        updateProgress(f, progress, error)
  \/ \E f \in FileIds : FileStartProcessing(f)
  \/ \E u \in Callers : StorageUsageQuery("r1", u)

\* any collection of completed Files of the two accounts, as the handlers
\* create them; the counters play no part
InitAnyFiles ==
  /\ files \in [FileIds -> {NoDoc} \cup {NewFile(o, MaxSize, "image", NoFile) : o \in Callers}]
  /\ users = [u \in Users |-> StoredUser("user", "free", 0, [k \in SchemaKeys |-> 0])]
  /\ usage = {}
  /\ req = [r \in Slots |-> IdleReq]
  /\ nextId = MaxFiles + 1
  /\ now = 1
  /\ credits = [f \in FileIds |-> 0]
  /\ client = Session(1, "loaded")

SpecFiles == InitAnyFiles /\ [][NextFiles]_vars

\* C28: File.getStorageUsage(userId) returns the sum of size over the Files
\* of that account in status completed or processing.
C28_RecomputeIsLiveSum ==
  [][\A r \in Slots :
       (req'[r].op = "getStorageUsage" /\ req'[r] # req[r])
       => req'[r].size = LiveSum(req'[r].uid)]_vars

\* C29: features.storage.used of every account is never negative, whatever
\* sequence of addStorageUsage and removeStorageUsage calls with sizes >= 0
\* has been made, a removal of more than the counter holds included.
C29_StorageNeverNegative ==
  \A u \in Users : users[u].storageUsed >= 0

\* removeStorageUsage has been called with a size above what the counter
\* held, and the counter is 0
C29_Witness ==
  /\ req["r1"].op = "removeStorageUsage"
  /\ req["r1"].size > req["r1"].user.storageUsed
  /\ users["u1"].storageUsed = 0

\* C30: an async function of the page sends at most one refresh call and at
\* most one retry for the call it makes, whatever the server answers.
C30_OneRefreshOneRetry ==
  \A t \in Tasks :
    client.tasks[t].refreshCalls <= 1 /\ client.tasks[t].retries <= 1
====
